---- MODULE Spec2Model ----
(***************************************************************************)
(* SportMatchMaker: the in-memory store (server/storage.ts, MemStorage),   *)
(* the ranking engine (calculateRankings / updatePairStats) and the        *)
(* pairing generation handlers of server/routes.ts.                        *)
(*                                                                         *)
(* A JavaScript Map iterates in insertion order.  Every id comes from an   *)
(* increasing counter and a set() on an existing key keeps its position,   *)
(* so Array.from(map.values()) is always in ascending id order: the maps   *)
(* are modelled as functions and read through AscSeq.                      *)
(* Display fields (name, alias, phone, ...) do not influence any of the    *)
(* modelled computations and are left out of the records.                  *)
(***************************************************************************)
EXTENDS Integers, Sequences, FiniteSets, TLC

VARIABLES players, courts, matchResults, playerRankings, games, waitLists,
          playerIdCounter, courtIdCounter, resultIdCounter, gameIdCounter,
          response, rankingsArg, pending, form

vars == <<players, courts, matchResults, playerRankings, games, waitLists,
          playerIdCounter, courtIdCounter, resultIdCounter, gameIdCounter,
          response, rankingsArg, pending, form>>

storeVars == <<players, courts, matchResults, playerRankings, games, waitLists,
               playerIdCounter, courtIdCounter, resultIdCounter, gameIdCounter>>

(***************************************************************************)
(* Bounds of the model.                                                    *)
(***************************************************************************)
\* ids handed out by playerIdCounter stay <= MaxPlayerId in the ranking machine
MaxPlayerId == 4
\* ids handed out by resultIdCounter stay <= MaxResults
MaxResults == 2
\* setNumber of a submitted result ranges over 1..MaxSetNumber
MaxSetNumber == 2

(***************************************************************************)
(* Generic helpers.                                                        *)
(***************************************************************************)
EmptyMap == [x \in {} |-> 0]

Min(a, b) == IF a < b THEN a ELSE b

RECURSIVE AscSeq(_)
\* the elements of a finite set of numbers in ascending order
AscSeq(S) ==
    IF S = {} THEN <<>>
    ELSE LET m == CHOOSE x \in S : \A y \in S : x <= y
         IN  <<m>> \o AscSeq(S \ {m})

Range(s) == {s[i] : i \in 1..Len(s)}

\* s.slice(from, to) with 0-based bounds, to exclusive
Slice(s, from, to) ==
    LET lo == Min(from, Len(s))
        hi == Min(to, Len(s))
    IN  IF hi <= lo THEN <<>> ELSE [i \in 1..(hi - lo) |-> s[lo + i]]

InsertAt(s, pos, x) ==
    [i \in 1..(Len(s) + 1) |->
        IF i < pos THEN s[i] ELSE IF i = pos THEN x ELSE s[i - 1]]

RECURSIVE SortDescUpTo(_, _, _)
\* the first n elements of s, sorted by the comparator (a, b) => key[b] - key[a];
\* Array.prototype.sort is stable, so an element goes after its equals
SortDescUpTo(s, key, n) ==
    IF n = 0 THEN <<>>
    ELSE LET done == SortDescUpTo(s, key, n - 1)
             x    == s[n]
             pos  == Cardinality({i \in 1..Len(done) : key[done[i]] >= key[x]}) + 1
         IN  InsertAt(done, pos, x)

SortDesc(s, key) == SortDescUpTo(s, key, Len(s))

(***************************************************************************)
(* shared/schema.ts                                                        *)
(***************************************************************************)
UserRole == [PLAYER |-> "player", ADMIN |-> "admin", SUPERADMIN |-> "superadmin"]

Pair(a, b) == [player1 |-> a, player2 |-> b]

PairPlayers(p) == {p.player1, p.player2}

(***************************************************************************)
(* MemStorage: players                                                     *)
(***************************************************************************)
getPlayers == AscSeq(DOMAIN players)

getSelectedPlayers == AscSeq({id \in DOMAIN players : players[id].selected})

\* a stored player: the selected flag, the role and the password ("" for null)
createPlayer(ps, id, insertPlayer) ==
    [x \in DOMAIN ps \cup {id} |-> IF x = id THEN insertPlayer ELSE ps[x]]

\* authenticatePlayer(name, password); a player's name is modelled by its id
authenticatePlayer(ps, name, password) ==
    name \in DOMAIN ps /\ ps[name].password = password

\* hasPermission(playerId, requiredRole)
hasPermission(ps, playerId, requiredRole) ==
    /\ playerId \in DOMAIN ps
    /\ \/ ps[playerId].role = "superadmin"
       \/ ps[playerId].role = "admin" /\ requiredRole # "superadmin"
       \/ ps[playerId].role = requiredRole

deletePlayer(ps, id) == [x \in DOMAIN ps \ {id} |-> ps[x]]

togglePlayerSelection(ps, id) ==
    [ps EXCEPT ![id] = [@ EXCEPT !.selected = ~@]]

(***************************************************************************)
(* MemStorage: ranking engine                                              *)
(***************************************************************************)
ZeroRanking(id) ==
    [playerId |-> id, gamesPlayed |-> 0, gamesWon |-> 0,
     setsPlayed |-> 0, setsWon |-> 0, points |-> 0]

\* results.filter(6-0 or 0-6): the ids of the blowout records of the store
specialScoreResults(results) ==
    {rid \in DOMAIN results :
        \/ results[rid].pair1Score = 6 /\ results[rid].pair2Score = 0
        \/ results[rid].pair1Score = 0 /\ results[rid].pair2Score = 6}

\* BlowoutsFor with the `winner === 'pair1'` branch lost
BlowoutsForPair2Only(results, pid) ==
    {rid \in specialScoreResults(results) :
        results[rid].winner = "pair2" /\ pid \in PairPlayers(results[rid].pair2)}

\* the blowout records counted in favour of player pid
BlowoutsFor(results, pid) ==
    {rid \in specialScoreResults(results) :
        \/ results[rid].winner = "pair1" /\ pid \in PairPlayers(results[rid].pair1)
        \/ results[rid].winner = "pair2" /\ pid \in PairPlayers(results[rid].pair2)}

\* the blowout records counted against player pid
BlowoutsAgainst(results, pid) ==
    {rid \in specialScoreResults(results) :
        \/ results[rid].winner = "pair2" /\ pid \in PairPlayers(results[rid].pair1)
        \/ results[rid].winner = "pair1" /\ pid \in PairPlayers(results[rid].pair2)}

\* ClampPoints without the Math.max(0, ...)
ClampPointsMissing(p) == p

ClampPoints(p) == IF p < 0 THEN 0 ELSE p

\* UpdatePlayerStats crediting the sets of a result to the loser as well
UpdatePlayerStatsSetsToLoser(row, pid, isWinner, setCount, results) ==
    LET base == row.points + 1
        pts  == IF isWinner
                THEN base + setCount + 3 * Cardinality(BlowoutsFor(results, pid))
                ELSE base - setCount - 3 * Cardinality(BlowoutsAgainst(results, pid))
    IN  [row EXCEPT
            !.gamesPlayed = @ + 1,
            !.setsPlayed  = @ + setCount,
            !.gamesWon    = IF isWinner THEN @ + 1 ELSE @,
            !.setsWon     = @ + setCount,
            !.points      = ClampPoints(pts)]

\* one `if (rankingN) { ... }` block of updatePairStats
UpdatePlayerStats(row, pid, isWinner, setCount, results) ==
    LET base == row.points + 1
        pts  == IF isWinner
                THEN base + setCount + 3 * Cardinality(BlowoutsFor(results, pid))
                ELSE base - setCount - 3 * Cardinality(BlowoutsAgainst(results, pid))
    IN  [row EXCEPT
            !.gamesPlayed = @ + 1,
            !.setsPlayed  = @ + setCount,
            !.gamesWon    = IF isWinner THEN @ + 1 ELSE @,
            !.setsWon     = IF isWinner THEN @ + setCount ELSE @,
            !.points      = ClampPoints(pts)]

\* updatePairStats guarded by `if (ranking1 && ranking2)`: a pair is updated
\* only when both of its players have a row
updatePairStatsBothOrNone(rk, results, player1Id, player2Id, isWinner, setCount) ==
    IF player1Id \in DOMAIN rk /\ player2Id \in DOMAIN rk
    THEN [rk EXCEPT
            ![player1Id] = UpdatePlayerStats(@, player1Id, isWinner, setCount, results),
            ![player2Id] = UpdatePlayerStats(@, player2Id, isWinner, setCount, results)]
    ELSE rk

\* the two blocks run in order on the row objects held by the map
updatePairStats(rk, results, player1Id, player2Id, isWinner, setCount) ==
    LET rk1 == IF player1Id \in DOMAIN rk
               THEN [rk EXCEPT ![player1Id] =
                        UpdatePlayerStats(@, player1Id, isWinner, setCount, results)]
               ELSE rk
    IN  IF player2Id \in DOMAIN rk1
        THEN [rk1 EXCEPT ![player2Id] =
                 UpdatePlayerStats(@, player2Id, isWinner, setCount, results)]
        ELSE rk1

\* the body of the `for (const result of results)` loop
ProcessResult(rk, results, rid) ==
    LET result == results[rid]
    IN  IF ~result.completed THEN rk
        ELSE LET w1 == (result.winner = "pair1")
                 a  == updatePairStats(rk, results, result.pair1.player1,
                                       result.pair1.player2, w1, result.setNumber)
             IN  updatePairStats(a, results, result.pair2.player1,
                                 result.pair2.player2, ~w1, result.setNumber)

RECURSIVE ProcessResults(_, _, _)
ProcessResults(rk, results, order) ==
    IF order = <<>> THEN rk
    ELSE ProcessResults(ProcessResult(rk, results, Head(order)), results, Tail(order))

\* ClearRankings with the clear() call lost
ClearRankingsSkipped(rk) == rk

\* this.playerRankings.clear()
ClearRankings(rk) == EmptyMap

\* InitRankings giving a zero row to the selected players only
InitRankingsSelectedOnly(rk, ps) ==
    [id \in DOMAIN rk \cup {x \in DOMAIN ps : ps[x].selected} |->
        IF id \in DOMAIN ps THEN ZeroRanking(id) ELSE rk[id]]

\* allPlayers.forEach(player => this.playerRankings.set(player.id, zero row))
InitRankings(rk, ps) ==
    [id \in DOMAIN rk \cup DOMAIN ps |->
        IF id \in DOMAIN ps THEN ZeroRanking(id) ELSE rk[id]]

\* calculateRankings that keeps a ranking map it finds filled
calculateRankingsCached(rk, ps, results) ==
    IF DOMAIN rk # {} THEN rk
    ELSE ProcessResults(InitRankings(rk, ps), results, AscSeq(DOMAIN results))

\* calculateRankings, run without interleaving, from the ranking map rk
calculateRankings(rk, ps, results) ==
    ProcessResults(InitRankings(ClearRankings(rk), ps), results,
                   AscSeq(DOMAIN results))

\* getPlayerRankings without the sort: the rows in Map order
getPlayerRankingsUnsorted(rk) ==
    [i \in 1..Cardinality(DOMAIN rk) |-> rk[AscSeq(DOMAIN rk)[i]]]

\* getPlayerRankings: the rows, sorted by descending points
getPlayerRankings(rk) ==
    LET rows == [i \in 1..Cardinality(DOMAIN rk) |-> rk[AscSeq(DOMAIN rk)[i]]]
    IN  SortDesc(rows, [r \in Range(rows) |-> r.points])

(***************************************************************************)
(* MemStorage: match results                                               *)
(***************************************************************************)
\* { ...result, id } stored under id
saveMatchResult(results, id, result) ==
    [x \in DOMAIN results \cup {id} |->
        IF x = id THEN [result EXCEPT !.id = id] ELSE results[x]]

\* MergeResult spreading the update last: { ...existingResult, id, ...result }
MergeResultIdFromPatch(existing, patch, id) ==
    [f \in DOMAIN existing |->
        IF f \in DOMAIN patch THEN patch[f] ELSE existing[f]]

\* { ...existingResult, ...result, id }
MergeResult(existing, patch, id) ==
    [[f \in DOMAIN existing |->
        IF f \in DOMAIN patch THEN patch[f] ELSE existing[f]] EXCEPT !.id = id]

updateMatchResult(results, id, patch) ==
    [results EXCEPT ![id] = MergeResult(@, patch, id)]

(***************************************************************************)
(* MemStorage: courts, games and wait lists                                *)
(***************************************************************************)
getCourts == AscSeq(DOMAIN courts)

\* createGame: the game is stored and its wait list starts empty
createGame(gs, id, game) ==
    [x \in DOMAIN gs \cup {id} |-> IF x = id THEN game ELSE gs[x]]

InitWaitList(wl, id) ==
    [x \in DOMAIN wl \cup {id} |-> IF x = id THEN <<>> ELSE wl[x]]

\* addToWaitList without the `waitList.some(p => p.id === playerId)` check
addToWaitListUnchecked(wl, gs, ps, gameId, playerId) ==
    IF gameId \notin DOMAIN gs \/ playerId \notin DOMAIN ps THEN wl
    ELSE LET waitList == IF gameId \in DOMAIN wl THEN wl[gameId] ELSE <<>>
         IN  [x \in DOMAIN wl \cup {gameId} |->
                 IF x = gameId THEN Append(waitList, playerId) ELSE wl[x]]

\* addToWaitList: nothing happens for an unknown game, an unknown player or a
\* player already on the list; a wait list entry is modelled by its player id
addToWaitList(wl, gs, ps, gameId, playerId) ==
    IF gameId \notin DOMAIN gs \/ playerId \notin DOMAIN ps THEN wl
    ELSE LET waitList == IF gameId \in DOMAIN wl THEN wl[gameId] ELSE <<>>
         IN  IF playerId \in Range(waitList) THEN wl
             ELSE [x \in DOMAIN wl \cup {gameId} |->
                      IF x = gameId THEN Append(waitList, playerId) ELSE wl[x]]

RECURSIVE AddAllToWaitList(_, _, _, _, _)
\* for (const player of waitListPlayers) await storage.addToWaitList(...)
AddAllToWaitList(wl, gs, ps, gameId, ids) ==
    IF ids = <<>> THEN wl
    ELSE AddAllToWaitList(addToWaitList(wl, gs, ps, gameId, Head(ids)),
                          gs, ps, gameId, Tail(ids))

(***************************************************************************)
(* Pairing generation (POST /api/pairings/generate)                        *)
(***************************************************************************)
\* the date new Date().toISOString().split('T')[0] gives when gameDate is falsy
Today == "today"

\* the validation messages of the handlers, without the counts some of them
\* append ("(actualmente N)", the numbers of courts)
MsgMinPlayers == "Se necesitan al menos 4 jugadores para generar parejas"
MsgMultipleOf4 == "Se necesita un multiplo de 4 jugadores para emparejamientos equitativos"
MsgCourts == "No hay suficientes canchas"
MsgInvalidFormat == "Formato de datos invalido"

ValidationMessages == {MsgMinPlayers, MsgMultipleOf4, MsgCourts}

\* selectedPlayers.length > 0 ? selectedPlayers : allPlayers
PlayerPool ==
    IF Len(getSelectedPlayers) > 0 THEN getSelectedPlayers ELSE getPlayers

\* allCourts.filter(court => selectedCourtIds.includes(court.id)), or all courts
\* when no court is selected
availableCourts(selectedCourtIds) ==
    IF selectedCourtIds # {}
    THEN AscSeq(DOMAIN courts \cap selectedCourtIds)
    ELSE getCourts

\* rankings.find(r => r.playerId === playerId), 0 points without a row
getPlayerRanking(rankings, playerId) ==
    IF \E i \in 1..Len(rankings) : rankings[i].playerId = playerId
    THEN LET first == CHOOSE i \in 1..Len(rankings) :
                        /\ rankings[i].playerId = playerId
                        /\ \A j \in 1..(i - 1) : rankings[j].playerId # playerId
         IN  rankings[first].points
    ELSE 0

\* [...players].sort((a, b) => ranking(b) - ranking(a))
sortedPlayers(pool, rankings) ==
    SortDesc(pool, [id \in Range(pool) |-> getPlayerRanking(rankings, id)])

\* BottomIndex with the `- 1` of the 0-based index applied twice
BottomIndexOffByOne(i, n) == n - i

\* BottomIndex pairing the top half with the bottom half in the same order
BottomIndexSameOrder(i, n) == i + n \div 2

\* the partner of the player at 1-based seed position i among n
\* (sortedPlayers[sortedPlayers.length - 1 - i] for the 0-based i)
BottomIndex(i, n) == n + 1 - i

\* for (i = 0; i < sortedPlayers.length / 2; i++) push {top, bottom}
balancedPairs(sorted) ==
    [i \in 1..((Len(sorted) + 1) \div 2) |->
        Pair(sorted[i], sorted[BottomIndex(i, Len(sorted))])]

PairScore(rankings, p) ==
    getPlayerRanking(rankings, p.player1) + getPlayerRanking(rankings, p.player2)

\* balancedPairs.sort((a, b) => scoreB - scoreA)
sortedPairs(pairs, rankings) ==
    SortDesc(pairs, [p \in Range(pairs) |-> PairScore(rankings, p)])

\* Number(sets) || 3
SetsValue(sets) == IF sets = 0 THEN 3 ELSE sets

\* gameDate || today
GameDateValue(gameDate) == IF gameDate = "" THEN Today ELSE gameDate

\* CourtLoop stopping one court early: `if (pairIndex1 + 1 >= pairIndex2) break`
CourtLoopBreakEarly(nCourts, nPairs) ==
    {i \in 0..(nCourts - 1) :
        \A j \in 0..i : 2 * j < nPairs /\ j + 1 < nPairs - 1 - j}

\* the 0-based court indices for which the assignment loop pushes a pairing:
\* i < selectedCourts.length && i * 2 < pairs.length, stopped by
\* `if (pairIndex1 >= pairIndex2) break`
CourtLoop(nCourts, nPairs) ==
    {i \in 0..(nCourts - 1) :
        \A j \in 0..i : 2 * j < nPairs /\ j < nPairs - 1 - j}

\* assignCourts putting neighbouring pairs (2i, 2i + 1) on court i
assignCourtsNeighbours(selectedCourts, sp, sets, gameDate) ==
    [k \in 1..Cardinality(CourtLoop(Len(selectedCourts), Len(sp))) |->
        [courtId  |-> selectedCourts[k],
         pair1    |-> sp[2 * k - 1],
         pair2    |-> sp[2 * k],
         sets     |-> SetsValue(sets),
         gameDate |-> GameDateValue(gameDate)]]

\* the court assignment loop
assignCourts(selectedCourts, sp, sets, gameDate) ==
    [k \in 1..Cardinality(CourtLoop(Len(selectedCourts), Len(sp))) |->
        [courtId  |-> selectedCourts[k],
         pair1    |-> sp[k],
         pair2    |-> sp[Len(sp) + 1 - k],
         sets     |-> SetsValue(sets),
         gameDate |-> GameDateValue(gameDate)]]

\* sorting, snake seeding and court assignment of a validated pool
rankedPairings(pool, selectedCourts, rankings, sets, gameDate) ==
    assignCourts(selectedCourts,
                 sortedPairs(balancedPairs(sortedPlayers(pool, rankings)), rankings),
                 sets, gameDate)

\* pairingsSchema.parse(pairings): sets must be a number >= 1
PairingsSchemaOk(pairings) == \A k \in 1..Len(pairings) : pairings[k].sets >= 1

\* a reply of a generation handler, kept with the request it answers
GenerateFailure(handler, req, message) ==
    [op |-> handler, req |-> req, status |-> 400, message |-> message, body |-> <<>>]

GenerateReply(handler, req, pairings) ==
    IF PairingsSchemaOk(pairings)
    THEN [op |-> handler, req |-> req, status |-> 200, message |-> "",
          body |-> pairings]
    ELSE GenerateFailure(handler, req, MsgInvalidFormat)

\* the validation of the first handler: "" when the request is accepted
RankedValidation(nPlayers, nCourts) ==
    IF nPlayers < 4 THEN MsgMinPlayers
    ELSE IF nPlayers % 4 # 0 THEN MsgMultipleOf4
    ELSE IF nCourts < nPlayers \div 4 THEN MsgCourts
    ELSE ""

\* the admin handler keeps the players the available courts can host
AdminEligible(pool, nCourts) == Slice(pool, 0, nCourts * 4)

AdminWaitList(pool, nCourts) == Slice(pool, nCourts * 4, Len(pool))

\* AdminValidation without the multiple-of-4 check on the eligible players
AdminValidationPoolOnly(nPlayers, nEligible) ==
    IF nPlayers < 4 THEN MsgMinPlayers
    ELSE IF nEligible \div 4 = 0 THEN MsgMinPlayers
    ELSE ""

\* the validation of the admin handler: on the pool, then on the eligible players
AdminValidation(nPlayers, nEligible) ==
    IF nPlayers < 4 THEN MsgMinPlayers
    ELSE IF nEligible \div 4 = 0 THEN MsgMinPlayers
    ELSE IF nEligible % 4 # 0 THEN MsgMultipleOf4
    ELSE ""

\* the reply of the first handler to a request on a pool, the available
\* courts and the rankings list
allocatePairings(handler, req, pool, avail, rankings) ==
    LET failure == RankedValidation(Len(pool), Len(avail))
        requiredCourts == Len(pool) \div 4
        selectedCourts == Slice(avail, 0, requiredCourts)
        sets == IF req.hasSets THEN req.sets ELSE 1
    IN  IF failure # "" THEN GenerateFailure(handler, req, failure)
        ELSE GenerateReply(handler, req,
                 rankedPairings(pool, selectedCourts, rankings, sets, req.gameDate))

\* the reply of the admin handler
allocatePairingsAdmin(handler, req, pool, avail, rankings) ==
    LET eligiblePlayers == AdminEligible(pool, Len(avail))
        failure == AdminValidation(Len(pool), Len(eligiblePlayers))
        requiredCourts == Len(eligiblePlayers) \div 4
        selectedCourts == Slice(avail, 0, requiredCourts)
        sets == IF req.hasSets THEN req.sets ELSE 3
    IN  IF failure # "" THEN GenerateFailure(handler, req, failure)
        ELSE GenerateReply(handler, req,
                 rankedPairings(eligiblePlayers, selectedCourts, rankings, sets,
                                req.gameDate))

(***************************************************************************)
(* Inputs of the result endpoints. The endpoints store req.body as it     *)
(* comes; the bodies drawn here are well-typed MatchResults.               *)
(***************************************************************************)
Scores == {<<6, 0>>, <<0, 6>>, <<6, 4>>}

\* the two pairs of a submitted result: players 1,2 against players 3,4
Lineups == {<<Pair(1, 2), Pair(3, 4)>>}

ResultBodies ==
    {[id |-> 0, setNumber |-> n, pair1Score |-> sc[1], pair2Score |-> sc[2],
      winner |-> w, completed |-> c, pair1 |-> l[1], pair2 |-> l[2]] :
        n \in 1..MaxSetNumber, sc \in Scores, w \in {"pair1", "pair2"},
        c \in BOOLEAN, l \in Lineups}

ResultPatches ==
    {[completed |-> c] : c \in BOOLEAN}
    \cup {[winner |-> w] : w \in {"pair1", "pair2"}}
    \cup {[pair1Score |-> sc[1], pair2Score |-> sc[2]] : sc \in Scores}
    \cup {[id |-> 7, setNumber |-> n] : n \in 1..MaxSetNumber}

(***************************************************************************)
(* The result form (MatchResultForm) of the client                         *)
(***************************************************************************)
\* the highest score the score inputs keep: Math.min(Math.max(0, value), 7)
ScoreMax == 7

\* defaultValues, and the values of form.reset after a submission
FormDefaults(setNumber) ==
    [setNumber |-> setNumber, pair1Score |-> 0, pair2Score |-> 0,
     winner |-> "pair1", completed |-> TRUE]

\* Math.min(Math.max(0, value), 7)
ValidScore(value) == IF value < 0 THEN 0 ELSE IF value > ScoreMax THEN ScoreMax ELSE value

determineWinner(pair1Score, pair2Score) ==
    IF pair1Score > pair2Score THEN "pair1" ELSE "pair2"

\* handleScoreChange: the winner field follows the scores unless they are equal
handleScoreChange(f, pair1Score, pair2Score) ==
    IF pair1Score = pair2Score THEN f
    ELSE [f EXCEPT !.winner = determineWinner(pair1Score, pair2Score)]

\* resultData of onSubmit: the form values with the pairs of the pairing
ResultData(f, pair1, pair2) ==
    [id |-> 0, setNumber |-> f.setNumber, pair1Score |-> f.pair1Score,
     pair2Score |-> f.pair2Score, winner |-> f.winner, completed |-> f.completed,
     pair1 |-> pair1, pair2 |-> pair2]

(***************************************************************************)
(* Initial state: the MemStorage constructor                               *)
(***************************************************************************)
predefinedCourts ==
    <<"Lala", "AR", "Mochomos", "Combugas", "Casa del Vino", "Moric", "Central">>

NoResponse == [op |-> "none", status |-> 0]

Init ==
    /\ players = [id \in {1, 2} |->
                    [selected |-> FALSE,
                     role |-> IF id = 1 THEN UserRole.SUPERADMIN ELSE UserRole.ADMIN,
                     password |-> IF id = 1 THEN "admin123" ELSE ""]]
    /\ playerIdCounter = 3
    /\ courts = [id \in 1..Len(predefinedCourts) |-> predefinedCourts[id]]
    /\ courtIdCounter = Len(predefinedCourts) + 1
    /\ matchResults = EmptyMap
    /\ resultIdCounter = 1
    /\ playerRankings = EmptyMap
    /\ games = EmptyMap
    /\ gameIdCounter = 1
    /\ waitLists = EmptyMap
    /\ response = NoResponse
    /\ rankingsArg = <<>>
    /\ form = FormDefaults(1)
    /\ pending = <<>>

(***************************************************************************)
(* Handlers: players                                                       *)
(***************************************************************************)
\* a registration body: an ordinary player without password
NewPlayer(selected) ==
    [selected |-> selected, role |-> UserRole.PLAYER, password |-> ""]

\* POST /api/players
PostPlayer(maxId, bodies) ==
    /\ playerIdCounter <= maxId
    /\ \E body \in bodies :
          players' = createPlayer(players, playerIdCounter, body)
    /\ playerIdCounter' = playerIdCounter + 1
    /\ response' = [op |-> "other", status |-> 201]
    /\ UNCHANGED <<rankingsArg, pending, form, courts, matchResults, playerRankings, games, waitLists,
                   courtIdCounter, resultIdCounter, gameIdCounter>>

\* DELETE /api/players/:id
DeletePlayer(ids) ==
    \E id \in ids :
        /\ players' = IF id \in DOMAIN players THEN deletePlayer(players, id)
                      ELSE players
        /\ response' = [op |-> "other", status |-> IF id \in DOMAIN players THEN 204 ELSE 404]
        /\ UNCHANGED <<rankingsArg, pending, form, courts, matchResults, playerRankings, games, waitLists,
                       playerIdCounter, courtIdCounter, resultIdCounter,
                       gameIdCounter>>

\* POST /api/players/:id/toggle-selection
ToggleSelection ==
    \E id \in 1..(playerIdCounter - 1) :
        /\ players' = IF id \in DOMAIN players
                      THEN togglePlayerSelection(players, id) ELSE players
        /\ response' = [op |-> "other", status |-> IF id \in DOMAIN players THEN 200 ELSE 404]
        /\ UNCHANGED <<rankingsArg, pending, form, courts, matchResults, playerRankings, games, waitLists,
                       playerIdCounter, courtIdCounter, resultIdCounter,
                       gameIdCounter>>

(***************************************************************************)
(* Handlers: match results and rankings                                    *)
(***************************************************************************)
\* POST /api/match-results: saveMatchResult (which recalculates), then the
\* handler's own calculateRankings
PostMatchResult(maxId, bodies) ==
    /\ resultIdCounter <= maxId
    /\ \E body \in bodies :
          LET saved == saveMatchResult(matchResults, resultIdCounter, body)
              rk1   == calculateRankings(playerRankings, players, saved)
          IN  /\ matchResults' = saved
              /\ playerRankings' = calculateRankings(rk1, players, saved)
    /\ resultIdCounter' = resultIdCounter + 1
    /\ response' = [op |-> "other", status |-> 201]
    /\ UNCHANGED <<rankingsArg, pending, form, players, courts, games, waitLists, playerIdCounter,
                   courtIdCounter, gameIdCounter>>

\* PATCH /api/match-results/:id
PatchMatchResult ==
    \E id \in 1..resultIdCounter, patch \in ResultPatches :
        /\ IF id \in DOMAIN matchResults
           THEN LET upd == updateMatchResult(matchResults, id, patch)
                    rk1 == calculateRankings(playerRankings, players, upd)
                IN  /\ matchResults' = upd
                    /\ playerRankings' = calculateRankings(rk1, players, upd)
                    /\ response' = [op |-> "other", status |-> 200]
           ELSE /\ UNCHANGED <<matchResults, playerRankings>>
                /\ response' = [op |-> "other", status |-> 404]
        /\ UNCHANGED <<rankingsArg, pending, form, players, courts, games, waitLists, playerIdCounter,
                       courtIdCounter, resultIdCounter, gameIdCounter>>

\* GET /api/rankings
GetRankings ==
    /\ playerRankings' = calculateRankings(playerRankings, players, matchResults)
    /\ response' = [op |-> "getRankings", status |-> 200,
                    body |-> getPlayerRankings(playerRankings')]
    /\ UNCHANGED <<rankingsArg, pending, form, players, courts, matchResults, games, waitLists,
                   playerIdCounter, courtIdCounter, resultIdCounter,
                   gameIdCounter>>

(***************************************************************************)
(* Handlers: pairing generation                                            *)
(***************************************************************************)
\* an id no court has
UnknownCourtId == 99

\* req.body of a generation request; hasSets = FALSE is a body without sets,
\* gameDate = "" a body without gameDate
GenerateRequests(dates, setsInputs, courtSelections) ==
    {[gameDate |-> d, hasSets |-> TRUE, sets |-> n, selectedCourtIds |-> c] :
        d \in dates, n \in setsInputs, c \in courtSelections}
    \cup
    {[gameDate |-> d, hasSets |-> FALSE, sets |-> 0, selectedCourtIds |-> c] :
        d \in dates, c \in courtSelections}

\* the Authorization header: absent, or a name (a player id) and a password
Credentials ==
    {[present |-> FALSE, name |-> 0, password |-> "-"]}
    \cup {[present |-> TRUE, name |-> 1, password |-> pw] :
            pw \in {"admin123", "guess"}}
    \cup {[present |-> TRUE, name |-> 2, password |-> "guess"]}

\* RankingsRead with getPlayerRankings called before calculateRankings
RankingsReadBeforeRefresh(old, rk) == old

\* the ranking map getPlayerRankings reads in a generation handler:
\* `await storage.calculateRankings()` comes first, so it is the rebuilt map
RankingsRead(old, rk) == rk

\* calculateRankings moved in front of the validation returns
RefreshedRankingsEarly(failure, old, rk) == rk

\* the ranking map a generation request leaves: calculateRankings is awaited
\* after the last validation return, so a rejected request keeps the old map
RefreshedRankings(failure, old, rk) == IF failure # "" THEN old ELSE rk

\* POST /api/pairings/generate, as first registered (no middleware)
GeneratePairings(requests) ==
    \E req \in requests :
        LET pool  == PlayerPool
            avail == availableCourts(req.selectedCourtIds)
            rk    == calculateRankings(playerRankings, players, matchResults)
        IN  /\ response' = allocatePairings("generate", req, pool, avail,
                                getPlayerRankings(RankingsRead(playerRankings, rk)))
            /\ playerRankings' =
                  RefreshedRankings(RankedValidation(Len(pool), Len(avail)),
                                    playerRankings, rk)
            /\ UNCHANGED <<rankingsArg, pending, form, players, courts, matchResults, games,
                           waitLists, playerIdCounter, courtIdCounter,
                           resultIdCounter, gameIdCounter>>

\* the game the admin handler creates for the players it could not place
OverflowGame(req, selectedCourts) ==
    [gameDate |-> GameDateValue(req.gameDate), courtIds |-> selectedCourts,
     status |-> "pending", maxPlayers |-> Len(selectedCourts) * 4]

\* POST /api/pairings/generate, as registered with authMiddleware and
\* roleMiddleware(UserRole.ADMIN)
GeneratePairingsAdminWith(req, cred, maxGames) ==
        LET pool  == PlayerPool
            avail == availableCourts(req.selectedCourtIds)
            eligiblePlayers == AdminEligible(pool, Len(avail))
            waitListPlayers == AdminWaitList(pool, Len(avail))
            selectedCourts  == Slice(avail, 0, Len(eligiblePlayers) \div 4)
            failure  == AdminValidation(Len(pool), Len(eligiblePlayers))
            accepted == failure = ""
            rk    == calculateRankings(playerRankings, players, matchResults)
            withGame == createGame(games, gameIdCounter,
                                   OverflowGame(req, selectedCourts))
        IN  IF ~cred.present \/ ~authenticatePlayer(players, cred.name, cred.password)
            THEN /\ response' = [op |-> "generateAdmin", req |-> req, status |-> 401,
                                 message |-> "Credenciales invalidas", body |-> <<>>]
                 /\ UNCHANGED <<storeVars, rankingsArg, pending, form>>
            ELSE IF ~hasPermission(players, cred.name, UserRole.ADMIN)
            THEN /\ response' = [op |-> "generateAdmin", req |-> req, status |-> 403,
                                 message |-> "No autorizado", body |-> <<>>]
                 /\ UNCHANGED <<storeVars, rankingsArg, pending, form>>
            ELSE /\ response' = allocatePairingsAdmin("generateAdmin", req, pool, avail,
                                getPlayerRankings(RankingsRead(playerRankings, rk)))
                 /\ IF accepted /\ waitListPlayers # <<>>
                    THEN /\ gameIdCounter <= maxGames
                         /\ games' = withGame
                         /\ gameIdCounter' = gameIdCounter + 1
                         /\ waitLists' =
                               AddAllToWaitList(InitWaitList(waitLists, gameIdCounter),
                                                withGame, players, gameIdCounter,
                                                waitListPlayers)
                    ELSE UNCHANGED <<games, gameIdCounter, waitLists>>
                 /\ playerRankings' = RefreshedRankings(failure, playerRankings, rk)
                 /\ UNCHANGED <<rankingsArg, pending, form, players, courts, matchResults,
                                playerIdCounter, courtIdCounter, resultIdCounter>>

GeneratePairingsAdmin(requests, maxGames) ==
    \E req \in requests, cred \in Credentials :
        GeneratePairingsAdminWith(req, cred, maxGames)

(***************************************************************************)
(* The request machine: registrations, selection, results and generation   *)
(***************************************************************************)
\* ids handed out by playerIdCounter stay <= MaxPoolId in the request machine
MaxPoolId == 5
\* ids handed out by gameIdCounter stay <= MaxGames
MaxGames == 1

\* the results submitted in the request machine: one completed set between
\* players 1,2 and players 3,4
PoolResultBodies ==
    {[id |-> 0, setNumber |-> 1, pair1Score |-> 6, pair2Score |-> sc,
      winner |-> "pair1", completed |-> TRUE,
      pair1 |-> Pair(1, 2), pair2 |-> Pair(3, 4)] : sc \in {0, 4}}

\* every court selection with a bare body, every body with all courts
PoolRequests ==
    GenerateRequests({""}, {}, {{}, {1}, {UnknownCourtId}})
    \cup GenerateRequests({"", "2025-06-01"}, {-1, 0, 2}, {{}})

Next ==
    \/ PostPlayer(MaxPoolId, {NewPlayer(TRUE), NewPlayer(FALSE)})
    \/ ToggleSelection
    \/ PostMatchResult(1, PoolResultBodies)
    \/ GeneratePairings(PoolRequests)
    \/ GeneratePairingsAdmin(PoolRequests, MaxGames)

Spec == Init /\ [][Next]_vars

(***************************************************************************)
(* The allocator as a function of its inputs: a roster, the courts and a   *)
(* rankings list.  The handlers obtain the list from calculateRankings and *)
(* getPlayerRankings; here it ranges over every list of rows with points   *)
(* in 0..MaxPoints, the empty list (a read of the ranking map between a    *)
(* recomputation's clear() and its repopulation) and two fixed standings.  *)
(***************************************************************************)
\* the rosters handed to the allocator hold 2..MaxPool players
MaxPool == 8
\* the points of a ranking row handed to the allocator range over 0..MaxPoints
MaxPoints == 1

Roster(n) ==
    [id \in 1..n |->
        IF id = 1 THEN [selected |-> FALSE, role |-> UserRole.SUPERADMIN,
                        password |-> "admin123"]
        ELSE IF id = 2 THEN [selected |-> FALSE, role |-> UserRole.ADMIN,
                             password |-> ""]
        ELSE NewPlayer(FALSE)]

\* the ranking map in which player id holds pts[id] points
Standing(pts) == [id \in DOMAIN pts |-> [ZeroRanking(id) EXCEPT !.points = pts[id]]]

\* 8 players with points 100, 90, ..., 30, in roster order and in reverse
FixedStandings ==
    {[id \in 1..8 |-> 110 - 10 * id], [id \in 1..8 |-> 20 + 10 * id]}

RankingLists(n) ==
    {getPlayerRankings(Standing(pts)) : pts \in [1..n -> 0..MaxPoints]}
    \cup {<<>>}
    \cup (IF n = 8 THEN {getPlayerRankings(Standing(pts)) : pts \in FixedStandings}
          ELSE {})

InitPair ==
    /\ \E n \in 2..MaxPool :
          /\ players = Roster(n)
          /\ playerIdCounter = n + 1
          /\ rankingsArg \in RankingLists(n)
    /\ courts = [id \in 1..Len(predefinedCourts) |-> predefinedCourts[id]]
    /\ courtIdCounter = Len(predefinedCourts) + 1
    /\ matchResults = EmptyMap
    /\ resultIdCounter = 1
    /\ playerRankings = EmptyMap
    /\ games = EmptyMap
    /\ gameIdCounter = 1
    /\ waitLists = EmptyMap
    /\ response = NoResponse
    /\ form = FormDefaults(1)
    /\ pending = <<>>

PairRequests ==
    GenerateRequests({""}, {}, {{}, {1}, {1, 2}, {UnknownCourtId}})

\* validation, seeding and court assignment of the first handler
AllocatePairings ==
    \E req \in PairRequests :
        /\ response' = allocatePairings("generate", req, PlayerPool,
                            availableCourts(req.selectedCourtIds), rankingsArg)
        /\ UNCHANGED <<storeVars, rankingsArg, pending, form>>

\* validation, seeding and court assignment of the admin handler
AllocatePairingsAdmin ==
    \E req \in PairRequests :
        /\ response' = allocatePairingsAdmin("generateAdmin", req, PlayerPool,
                            availableCourts(req.selectedCourtIds), rankingsArg)
        /\ UNCHANGED <<storeVars, rankingsArg, pending, form>>

NextPair == AllocatePairings \/ AllocatePairingsAdmin

SpecPair == InitPair /\ [][NextPair]_vars

(***************************************************************************)
(* Pairing properties (checked under SpecPair)                             *)
(***************************************************************************)
IsGenerate == response.op \in {"generate", "generateAdmin"}

GenerateSucceeded == IsGenerate /\ response.status = 200

\* the courts available to the request the response answers
RequestCourts == availableCourts(response.req.selectedCourtIds)

\* the players the answered request had to place
EligiblePlayers ==
    IF response.op = "generate" THEN PlayerPool
    ELSE AdminEligible(PlayerPool, Len(RequestCourts))

\* a pool the generation accepts: at least 4 players, a multiple of 4, and
\* (first handler) enough courts
PoolAccepted ==
    /\ Len(EligiblePlayers) >= 4
    /\ Len(EligiblePlayers) % 4 = 0
    /\ Len(RequestCourts) >= Len(EligiblePlayers) \div 4

\* the sets value of the answered request passes pairingsSchema
RequestSetsValid ==
    SetsValue(IF response.req.hasSets THEN response.req.sets
              ELSE IF response.op = "generate" THEN 1 ELSE 3) >= 1

\* the request reached the handler body (the admin middleware let it through)
GenerateHandled == IsGenerate /\ response.status \in {200, 400}

PairingPlayers(cp) == PairPlayers(cp.pair1) \cup PairPlayers(cp.pair2)

\* C1: for every accepted pool the returned pairings hold every eligible
\* player exactly once: four distinct players per pairing, no player in two
\* pairings, and no eligible player left out.
C1_EveryPlayerOnce ==
    (GenerateHandled /\ PoolAccepted /\ RequestSetsValid) =>
        /\ response.status = 200
        /\ \A k \in 1..Len(response.body) :
              Cardinality(PairingPlayers(response.body[k])) = 4
        /\ \A k, m \in 1..Len(response.body) :
              k # m => PairingPlayers(response.body[k]) \cap
                       PairingPlayers(response.body[m]) = {}
        /\ UNION {PairingPlayers(response.body[k]) : k \in 1..Len(response.body)}
              = Range(EligiblePlayers)

\* C1 witness: 8 players on two courts, and an admin request that placed the
\* 4 players one court can host out of 8
C1_Witness ==
    /\ GenerateSucceeded
    /\ \/ Len(EligiblePlayers) = 8 /\ Len(response.body) = 2
       \/ /\ response.op = "generateAdmin"
          /\ Len(PlayerPool) = 8 /\ Len(EligiblePlayers) = 4
          /\ Len(response.body) = 1

\* the points the rankings list gives a player, 0 without a row
PointsOf(id) ==
    IF \E r \in Range(rankingsArg) : r.playerId = id
    THEN (CHOOSE r \in Range(rankingsArg) : r.playerId = id).points
    ELSE 0

\* seq lists every eligible player once, by non-increasing points
IsSeeding(seq) ==
    /\ Len(seq) = Len(EligiblePlayers)
    /\ Range(seq) = Range(EligiblePlayers)
    /\ \A i \in 1..(Len(seq) - 1) : PointsOf(seq[i]) >= PointsOf(seq[i + 1])

\* the pairs of the response, each as the set of its two players
ResponsePairs ==
    UNION {{PairPlayers(response.body[k].pair1), PairPlayers(response.body[k].pair2)} :
              k \in 1..Len(response.body)}

\* C2: with the N eligible players sorted by descending points (0 without a
\* ranking row), the pairs formed are exactly {rank i, rank N-1-i} for
\* i in 0..N/2-1.
C2_SnakeSeeding ==
    GenerateSucceeded =>
        LET seeds == sortedPlayers(EligiblePlayers, rankingsArg)
            n     == Len(seeds)
        IN  /\ IsSeeding(seeds)
            /\ ResponsePairs = {{seeds[i], seeds[n + 1 - i]} : i \in 1..(n \div 2)}

\* C2 witness: 8 players, not all with the same points, some without a row
\* counted as 0, seeded so that the roster order had to change
C2_Witness ==
    /\ GenerateSucceeded
    /\ Len(EligiblePlayers) = 8
    /\ \E a, b \in Range(EligiblePlayers) : PointsOf(a) # PointsOf(b)
    /\ sortedPlayers(EligiblePlayers, rankingsArg) # EligiblePlayers
    /\ Len(response.body) = 2

\* the player holding v points
PlayerWith(v) == CHOOSE id \in DOMAIN players : PointsOf(id) = v

\* the rankings list is that of 8 players with points 100, 90, ..., 30
FixedEightStanding ==
    /\ Len(rankingsArg) = 8
    /\ Len(PlayerPool) = 8
    /\ {PointsOf(id) : id \in DOMAIN players} = {30, 40, 50, 60, 70, 80, 90, 100}

\* C3: 8 players with points 100..30 and 2 (or more) available courts give the pairs
\* (100,30),(90,40),(80,50),(70,60); the first court gets (100,30) against
\* (70,60) and the second court (90,40) against (80,50).
C3_FixedEightPlayers ==
    (GenerateHandled /\ FixedEightStanding /\ RequestSetsValid
        /\ Len(RequestCourts) >= 2) =>
        /\ response.status = 200
        /\ Len(response.body) = 2
        /\ response.body[1].courtId = RequestCourts[1]
        /\ response.body[1].pair1 = Pair(PlayerWith(100), PlayerWith(30))
        /\ response.body[1].pair2 = Pair(PlayerWith(70), PlayerWith(60))
        /\ response.body[2].courtId = RequestCourts[2]
        /\ response.body[2].pair1 = Pair(PlayerWith(90), PlayerWith(40))
        /\ response.body[2].pair2 = Pair(PlayerWith(80), PlayerWith(50))
        /\ \A k \in 1..2 :
              /\ PointsOf(response.body[k].pair1.player1)
                    + PointsOf(response.body[k].pair1.player2) = 130
              /\ PointsOf(response.body[k].pair2.player1)
                    + PointsOf(response.body[k].pair2.player2) = 130

\* C3 witness: the fixed standing, in reverse roster order, was paired on
\* the two selected courts
C3_Witness ==
    /\ GenerateSucceeded
    /\ FixedEightStanding
    /\ PointsOf(1) = 30
    /\ Len(RequestCourts) = 2
    /\ Len(response.body) = 2

(***************************************************************************)
(* Validation properties (checked under Spec)                              *)
(***************************************************************************)
\* the pool holds at least 4 players and not a multiple of 4
OddPool == Len(PlayerPool) >= 4 /\ Len(PlayerPool) % 4 # 0

RejectedWith(message) ==
    /\ response.status = 400
    /\ response.message = message
    /\ response.body = <<>>

TooFewCourts ==
    /\ Len(PlayerPool) >= 4
    /\ Len(PlayerPool) % 4 = 0
    /\ Len(RequestCourts) < Len(PlayerPool) \div 4

\* C5: a pool that is a multiple of 4 and at least 4 with fewer than
\* players/4 available courts gets the failure citing insufficient courts,
\* not the insufficient-players or multiple-of-4 failure.
C5_InsufficientCourts ==
    (GenerateHandled /\ TooFewCourts) =>
        /\ RejectedWith(MsgCourts)
        /\ response.message \notin {MsgMinPlayers, MsgMultipleOf4}

\* the answered request failed validation
ValidationFailed ==
    /\ IsGenerate
    /\ response.status = 400
    /\ response.message \in ValidationMessages

\* C6: a generation request that ends in a validation failure changes no
\* stored state: players, courts, results, rankings, games, wait lists and
\* the id counters are as before the call.
C6_ValidationFailureFrame == [][ValidationFailed' => UNCHANGED storeVars]_vars

\* C6 witness: a request was rejected while the ranking map was out of date
\* (a recomputation would have changed it)
C6_Witness ==
    /\ ValidationFailed
    /\ playerRankings # calculateRankings(playerRankings, players, matchResults)

(***************************************************************************)
(* The ranking machine: roster changes, result submissions, ranking reads  *)
(***************************************************************************)
NextRank ==
    \/ PostPlayer(MaxPlayerId, {NewPlayer(FALSE)})
    \/ DeletePlayer(3..MaxPlayerId)
    \/ PostMatchResult(MaxResults, ResultBodies)
    \/ PatchMatchResult
    \/ GetRankings

SpecRank == Init /\ [][NextRank]_vars

(***************************************************************************)
(* Ranking engine properties (checked under SpecRank)                      *)
(***************************************************************************)
\* the rankings of the store were rebuilt by the last request and nothing
\* has changed since
RankingsJustRead == response.op = "getRankings"

RowOf(body, pid) == CHOOSE r \in Range(body) : r.playerId = pid

HasRow(body, pid) == \E r \in Range(body) : r.playerId = pid

\* the only stored result is completed, 6-0 for pair1, with setNumber 1
SingleBlowoutHistory ==
    /\ Cardinality(DOMAIN matchResults) = 1
    /\ \A rid \in DOMAIN matchResults :
          /\ matchResults[rid].completed
          /\ matchResults[rid].winner = "pair1"
          /\ matchResults[rid].pair1Score = 6
          /\ matchResults[rid].pair2Score = 0
          /\ matchResults[rid].setNumber = 1

\* C7: with a history of one completed result that pair1 won 6-0 with
\* setNumber 1, the recomputed rankings give each pair1 player 5 points
\* (1 + 1 + 3) and each pair2 player 0 points (1 - 1 - 3, clamped).
C7_SingleBlowoutPoints ==
    (RankingsJustRead /\ SingleBlowoutHistory) =>
        \A rid \in DOMAIN matchResults : \A row \in Range(response.body) :
            /\ row.playerId \in PairPlayers(matchResults[rid].pair1)
                  => (row.points = 5 /\ playerRankings[row.playerId].points = 5)
            /\ row.playerId \in PairPlayers(matchResults[rid].pair2)
                  => (row.points = 0 /\ playerRankings[row.playerId].points = 0)

\* C7 witness: such a history was ranked with all four players in the roster
C7_Witness ==
    /\ RankingsJustRead
    /\ SingleBlowoutHistory
    /\ \A rid \in DOMAIN matchResults :
          /\ PairPlayers(matchResults[rid].pair1) \cup
             PairPlayers(matchResults[rid].pair2) \subseteq DOMAIN players
          /\ \A pid \in PairPlayers(matchResults[rid].pair1) :
                HasRow(response.body, pid) /\ RowOf(response.body, pid).points = 5
          /\ \A pid \in PairPlayers(matchResults[rid].pair2) :
                HasRow(response.body, pid) /\ RowOf(response.body, pid).points = 0

\* C8: recomputation is a full rebuild: the rankings it leaves are those
\* computed from the players and results alone, starting from an empty map,
\* whatever the map held before; recomputing again changes nothing.
C8_FullRebuildIdempotent ==
    RankingsJustRead =>
        /\ playerRankings = calculateRankings(EmptyMap, players, matchResults)
        /\ calculateRankings(playerRankings, players, matchResults) = playerRankings

\* C8 witness: a rebuild that ran over a map holding the row of a deleted
\* player and produced non-zero points
C8_Witness ==
    /\ RankingsJustRead
    /\ \E id \in 1..(playerIdCounter - 1) : id \notin DOMAIN players
    /\ \E id \in DOMAIN playerRankings : playerRankings[id].points > 0
    /\ Cardinality(DOMAIN matchResults) = 2

\* C9: every point total produced by recomputation is >= 0.
C9_PointsNeverNegative ==
    \A id \in DOMAIN playerRankings : playerRankings[id].points >= 0

\* C9 witness: a player whose only game was lost with setNumber 2
\* (1 - 2 < 0) stands at 0 points
C9_Witness ==
    \E id \in DOMAIN playerRankings :
        /\ playerRankings[id].gamesPlayed = 1
        /\ playerRankings[id].gamesWon = 0
        /\ playerRankings[id].setsPlayed = 2
        /\ playerRankings[id].points = 0

\* the store's results without the records whose completed flag is false
CompletedResults(results) ==
    [rid \in {r \in DOMAIN results : results[r].completed} |-> results[rid]]

\* C10: a result whose completed flag is false affects no ranking row: the
\* rankings computed with such records in the store are the rankings
\* computed without them.
C10_IncompleteIgnored ==
    RankingsJustRead =>
        playerRankings =
            calculateRankings(EmptyMap, players, CompletedResults(matchResults))

\* C12: the ranking list returned to callers is ordered by non-increasing
\* points: each row's points are >= the next row's points.
C12_RankingsSortedDescending ==
    RankingsJustRead =>
        \A i \in 1..(Len(response.body) - 1) :
            response.body[i].points >= response.body[i + 1].points

\* C12 witness: a returned list in which a player with a higher id comes
\* before a player with a lower id because it holds more points
C12_Witness ==
    /\ RankingsJustRead
    /\ \E i \in 1..(Len(response.body) - 1) :
          /\ response.body[i].playerId > response.body[i + 1].playerId
          /\ response.body[i].points > response.body[i + 1].points

(***************************************************************************)
(* The roster machine: results whose players need not be in the roster.    *)
(* The submitted results are played by players 2,3 against player 4 and a  *)
(* player that is never created; players 3..MaxRosterId come and go.       *)
(***************************************************************************)
\* ids handed out by playerIdCounter stay <= MaxRosterId in the roster machine
MaxRosterId == 5
\* ids handed out by resultIdCounter stay <= MaxRosterResults
MaxRosterResults == 2

\* a player id the roster never holds
UnknownPlayerId == 99

RosterResultBodies ==
    {[id |-> 0, setNumber |-> 1, pair1Score |-> 6, pair2Score |-> sc,
      winner |-> w, completed |-> c,
      pair1 |-> Pair(2, 3), pair2 |-> Pair(4, UnknownPlayerId)] :
        sc \in {0, 4}, w \in {"pair1", "pair2"}, c \in BOOLEAN}

NextRoster ==
    \/ PostPlayer(MaxRosterId, {NewPlayer(FALSE)})
    \/ DeletePlayer(3..MaxRosterId)
    \/ PostMatchResult(MaxRosterResults, RosterResultBodies)
    \/ GetRankings

SpecRoster == Init /\ [][NextRoster]_vars

(***************************************************************************)
(* Roster properties (checked under SpecRoster)                            *)
(***************************************************************************)
\* the players of the completed results of the store
Participants(results) ==
    UNION {PairPlayers(results[rid].pair1) \cup PairPlayers(results[rid].pair2) :
              rid \in {r \in DOMAIN results : results[r].completed}}

\* C11: after a recomputation the ranking map has exactly one row per
\* player of the roster and no other row, and a player who took part in no
\* completed result has gamesPlayed, gamesWon, setsPlayed, setsWon and
\* points all 0.
C11_OneRowPerRosterPlayer ==
    RankingsJustRead =>
        /\ DOMAIN playerRankings = DOMAIN players
        /\ \A id \in DOMAIN players : playerRankings[id].playerId = id
        /\ {row.playerId : row \in Range(response.body)} = DOMAIN players
        /\ Len(response.body) = Cardinality(DOMAIN players)
        /\ \A id \in DOMAIN players \ Participants(matchResults) :
              /\ playerRankings[id] = ZeroRanking(id)
              /\ RowOf(response.body, id) = ZeroRanking(id)

\* C11 witness: rankings rebuilt for a roster that lost a participant of a
\* completed result, holds a participant with a game played and holds a
\* player without any game
C11_Witness ==
    /\ RankingsJustRead
    /\ \E id \in Participants(matchResults) :
          id < playerIdCounter /\ id \notin DOMAIN players
    /\ \E id \in DOMAIN players : playerRankings[id].gamesPlayed > 0
    /\ \E id \in DOMAIN players \ Participants(matchResults) :
          playerRankings[id] = ZeroRanking(id)

\* the roster with a plain player added for every participant it lacks
RosterWithParticipants ==
    [id \in DOMAIN players \cup Participants(matchResults) |->
        IF id \in DOMAIN players THEN players[id] ELSE NewPlayer(FALSE)]

\* C13: a completed result naming a player id that is not in the roster
\* (never created, or deleted since) does not stop the recomputation: the
\* unknown id gets no row and every roster player's row is the one computed
\* with all participants known.
C13_UnknownPlayerTolerated ==
    RankingsJustRead =>
        /\ response.status = 200
        /\ \A id \in Participants(matchResults) \ DOMAIN players :
              id \notin DOMAIN playerRankings /\ ~HasRow(response.body, id)
        /\ \A id \in DOMAIN players :
              playerRankings[id] =
                 calculateRankings(EmptyMap, RosterWithParticipants, matchResults)[id]

\* C13 witness: rankings rebuilt over a completed result one of whose
\* players was never created and another was deleted, while its partner in
\* the roster has its game counted
C13_Witness ==
    /\ RankingsJustRead
    /\ UnknownPlayerId \in Participants(matchResults)
    /\ 3 \in Participants(matchResults) /\ 3 \notin DOMAIN players
    /\ playerRankings[2].gamesPlayed > 0
    /\ 4 \in DOMAIN players /\ playerRankings[4].gamesPlayed > 0

(***************************************************************************)
(* The generation handlers run on rosters of 2..MaxPool players            *)
(***************************************************************************)
NextOverflow ==
    \/ GeneratePairings(PairRequests)
    \/ GeneratePairingsAdmin(PairRequests, MaxGames)

\* the handlers read the rankings from the store, not from rankingsArg
InitOverflow == InitPair /\ rankingsArg = <<>>

SpecOverflow == InitOverflow /\ [][NextOverflow]_vars

\* the pool holds more players than the available courts can host
Overflow == Len(PlayerPool) > 4 * Len(RequestCourts)

\* the players before and past the capacity cutoff, in pool order
BeforeCutoff == Slice(PlayerPool, 0, 4 * Len(RequestCourts))

PastCutoff == Slice(PlayerPool, 4 * Len(RequestCourts), Len(PlayerPool))

\* the players of the returned pairings
PairedPlayers ==
    UNION {PairingPlayers(response.body[k]) : k \in 1..Len(response.body)}

\* the wait list of the game created last
LastWaitList ==
    IF (gameIdCounter - 1) \in DOMAIN waitLists
    THEN waitLists[gameIdCounter - 1] ELSE <<>>

\* C14: when a pool that is a multiple of 4 exceeds the capacity of the
\* available courts (at least one), generation succeeds: the players past
\* the cutoff are on a wait list and in no pairing, the players before the
\* cutoff are paired.
C14_OverflowToWaitList ==
    (/\ GenerateHandled
     /\ Overflow
     /\ Len(RequestCourts) >= 1
     /\ Len(PlayerPool) % 4 = 0
     /\ RequestSetsValid) =>
        /\ response.status = 200
        /\ PairedPlayers = Range(BeforeCutoff)
        /\ LastWaitList = PastCutoff

(***************************************************************************)
(* Repeated generation requests on a store with a recorded result          *)
(***************************************************************************)
\* ids handed out by gameIdCounter stay <= MaxRuns in this machine
MaxRuns == 2

\* the results recorded before the rest of the roster registered: none, or
\* one set that players 3,4 won against players 1,2
EarlyResults ==
    {EmptyMap,
     saveMatchResult(EmptyMap, 1,
        [id |-> 0, setNumber |-> 1, pair1Score |-> 4, pair2Score |-> 6,
         winner |-> "pair2", completed |-> TRUE,
         pair1 |-> Pair(1, 2), pair2 |-> Pair(3, 4)])}

\* the store after the results were saved with only the constructor's two
\* players in the roster (saveMatchResult rebuilt the rankings for them) and
\* the other players were created afterwards
InitTwice ==
    /\ \E n \in 2..MaxPool :
          /\ players = Roster(n)
          /\ playerIdCounter = n + 1
    /\ matchResults \in EarlyResults
    /\ resultIdCounter = Cardinality(DOMAIN matchResults) + 1
    /\ playerRankings = IF matchResults = EmptyMap THEN EmptyMap
                        ELSE calculateRankings(EmptyMap, Roster(2), matchResults)
    /\ courts = [id \in 1..Len(predefinedCourts) |-> predefinedCourts[id]]
    /\ courtIdCounter = Len(predefinedCourts) + 1
    /\ games = EmptyMap
    /\ gameIdCounter = 1
    /\ waitLists = EmptyMap
    /\ response = NoResponse
    /\ rankingsArg = <<>>
    /\ form = FormDefaults(1)
    /\ pending = <<>>

NextTwice ==
    \/ GeneratePairings(PairRequests)
    \/ GeneratePairingsAdmin(PairRequests, MaxRuns)

SpecTwice == InitTwice /\ [][NextTwice]_vars

\* this step answers the request the previous step answered, by the same
\* handler, on the same players, courts and results
SameRunAgain ==
    /\ GenerateHandled
    /\ GenerateHandled'
    /\ response'.op = response.op
    /\ response'.req = response.req
    /\ players' = players
    /\ courts' = courts
    /\ matchResults' = matchResults

C16_RequestedSetsAndDate ==
    GenerateSucceeded =>
        \A k \in 1..Len(response.body) :
            /\ response.req.hasSets => response.body[k].sets = response.req.sets
            /\ response.req.gameDate # "" =>
                  response.body[k].gameDate = response.req.gameDate

(***************************************************************************)
(* The form machine: the result form of one pairing (players 1,2 against   *)
(* players 3,4) is edited and submitted.  The setNumber and gameDate       *)
(* inputs are left at their values; the score inputs receive integers.     *)
(***************************************************************************)
\* ids handed out by resultIdCounter stay <= MaxFormResults
MaxFormResults == 1

\* onChange of the pair1Score input
ChangePair1Score ==
    /\ \E value \in (-1)..(ScoreMax + 1) :
          LET validValue == ValidScore(value)
              f == [form EXCEPT !.pair1Score = validValue]
          IN  form' = handleScoreChange(f, validValue, f.pair2Score)
    /\ UNCHANGED <<storeVars, response, rankingsArg, pending>>

\* onChange of the pair2Score input
ChangePair2Score ==
    /\ \E value \in (-1)..(ScoreMax + 1) :
          LET validValue == ValidScore(value)
              f == [form EXCEPT !.pair2Score = validValue]
          IN  form' = handleScoreChange(f, f.pair1Score, validValue)
    /\ UNCHANGED <<storeVars, response, rankingsArg, pending>>

\* onValueChange of the winner radio group
SelectWinner ==
    /\ \E w \in {"pair1", "pair2"} : form' = [form EXCEPT !.winner = w]
    /\ UNCHANGED <<storeVars, response, rankingsArg, pending>>

\* onSubmit: POST /api/match-results with resultData, then form.reset
SubmitForm(maxId) ==
    /\ resultIdCounter <= maxId
    /\ LET saved == saveMatchResult(matchResults, resultIdCounter,
                                    ResultData(form, Pair(1, 2), Pair(3, 4)))
           rk1   == calculateRankings(playerRankings, players, saved)
       IN  /\ matchResults' = saved
           /\ playerRankings' = calculateRankings(rk1, players, saved)
    /\ resultIdCounter' = resultIdCounter + 1
    /\ response' = [op |-> "other", status |-> 201]
    /\ form' = FormDefaults(form.setNumber + 1)
    /\ UNCHANGED <<rankingsArg, pending, players, courts, games, waitLists, playerIdCounter,
                   courtIdCounter, gameIdCounter>>

NextForm ==
    \/ ChangePair1Score
    \/ ChangePair2Score
    \/ SelectWinner
    \/ SubmitForm(MaxFormResults)

SpecForm == Init /\ [][NextForm]_vars

\* C17: every stored MatchResult has as winner the pair with the strictly
\* higher score when the scores differ, and "pair1" when they are equal.
C17_WinnerMatchesScores ==
    \A rid \in DOMAIN matchResults :
        LET r == matchResults[rid]
        IN  /\ r.pair1Score > r.pair2Score => r.winner = "pair1"
            /\ r.pair1Score < r.pair2Score => r.winner = "pair2"
            /\ r.pair1Score = r.pair2Score => r.winner = "pair1"

(***************************************************************************)
(* Result store properties (checked under SpecRank)                        *)
(***************************************************************************)
\* the last request was a PATCH /api/match-results/:id
PatchAnswered == response.op = "other" /\ response.status \in {200, 404}

\* C18: match results are never removed and keep their identity: in every
\* step the stored ids only grow, a new id was never used before (it is not
\* below the counter), every record is stored under its own id whatever an
\* update carried, and an update of an unknown id (answered 404) changes
\* neither the results nor the counter.
C18_ResultsKeepIdentity ==
    [][/\ DOMAIN matchResults \subseteq DOMAIN matchResults'
       /\ \A rid \in DOMAIN matchResults' \ DOMAIN matchResults :
             /\ rid >= resultIdCounter
             /\ rid < resultIdCounter'
       /\ \A rid \in DOMAIN matchResults : rid < resultIdCounter
       /\ \A rid \in DOMAIN matchResults' : matchResults'[rid].id = rid
       /\ response'.status = 404 =>
             UNCHANGED <<matchResults, resultIdCounter, playerRankings>>]_vars

\* C18 witness: two results are stored and an update of one of them was
\* just applied
C18_Witness ==
    /\ response = [op |-> "other", status |-> 200]
    /\ DOMAIN matchResults = 1..MaxResults
    /\ resultIdCounter = MaxResults + 1

\* C19: the list a rankings query returns is the from-scratch recomputation
\* over the players and results stored at the time of the query, sorted by
\* descending points: no stale row (of a deleted player, or predating a
\* result save or update) is returned.
C19_QueryReturnsFreshRankings ==
    RankingsJustRead =>
        /\ response.status = 200
        /\ response.body =
              getPlayerRankings(calculateRankings(EmptyMap, players, matchResults))

\* C19 witness: a query answered after a player of a stored result was
\* deleted, with a completed and an incomplete result in the store and a
\* row with points in the list
C19_Witness ==
    /\ RankingsJustRead
    /\ \E id \in 3..(playerIdCounter - 1) :
          /\ id \notin DOMAIN players
          /\ ~HasRow(response.body, id)
    /\ \E rid \in DOMAIN matchResults : matchResults[rid].completed
    /\ \E rid \in DOMAIN matchResults : ~matchResults[rid].completed
    /\ \E row \in Range(response.body) : row.points > 0

(***************************************************************************)
(* The court machine: court creation and deletion requests                 *)
(***************************************************************************)
\* ids handed out by courtIdCounter stay <= MaxCourtId
MaxCourtId == 10

\* the allow-list of POST /api/courts
validCourtNames ==
    <<"Lala", "AR", "Mochomos", "Combugas", "Casa del Vino", "Moric", "Central">>

\* req.body of POST /api/courts: without name, or with a name on the list,
\* off the list, or empty
CourtBodies ==
    {[hasName |-> FALSE, name |-> ""]}
    \cup {[hasName |-> TRUE, name |-> n] : n \in {"Lala", "Central", "Pista 9", ""}}

\* insertCourtSchema.parse(req.body): name is a required string
InsertCourtSchemaOk(body) == body.hasName

\* validatedData.name && !validCourtNames.includes(validatedData.name)
CourtNameRejected(name) == name # "" /\ name \notin Range(validCourtNames)

\* MemStorage.createCourt
createCourt(cs, id, name) ==
    [x \in DOMAIN cs \cup {id} |-> IF x = id THEN name ELSE cs[x]]

\* MemStorage.deleteCourt
deleteCourt(cs, id) == [x \in DOMAIN cs \ {id} |-> cs[x]]

\* POST /api/courts
PostCourt(maxId) ==
    /\ courtIdCounter <= maxId
    /\ \E body \in CourtBodies :
          IF ~InsertCourtSchemaOk(body) \/ CourtNameRejected(body.name)
          THEN /\ response' = [op |-> "postCourt", status |-> 400, body |-> body]
               /\ UNCHANGED <<courts, courtIdCounter>>
          ELSE /\ courts' = createCourt(courts, courtIdCounter, body.name)
               /\ courtIdCounter' = courtIdCounter + 1
               /\ response' = [op |-> "postCourt", status |-> 201, body |-> body]
    /\ UNCHANGED <<rankingsArg, pending, form, players, matchResults, playerRankings, games,
                   waitLists, playerIdCounter, resultIdCounter, gameIdCounter>>

\* DELETE /api/courts/:id
DeleteCourt(ids) ==
    \E id \in ids :
        /\ courts' = IF id \in DOMAIN courts THEN deleteCourt(courts, id) ELSE courts
        /\ response' = [op |-> "other",
                        status |-> IF id \in DOMAIN courts THEN 204 ELSE 404]
        /\ UNCHANGED <<rankingsArg, pending, form, players, matchResults, playerRankings,
                       games, waitLists, playerIdCounter, courtIdCounter,
                       resultIdCounter, gameIdCounter>>

NextCourt ==
    \/ PostCourt(MaxCourtId)
    \/ DeleteCourt(Len(predefinedCourts)..MaxCourtId)

SpecCourt == Init /\ [][NextCourt]_vars

\* C20: every court in the store has a name of the allow-list, and a
\* creation request with any other name is rejected.
C20_CourtNamesOnAllowList ==
    /\ \A id \in DOMAIN courts : courts[id] \in Range(validCourtNames)
    /\ (response.op = "postCourt" /\ response.body.name \notin Range(validCourtNames))
          => response.status = 400

(***************************************************************************)
(* Route registration of POST /api/pairings/generate                       *)
(***************************************************************************)
\* ids handed out by playerIdCounter stay <= MaxRouteId
MaxRouteId == 6

\* the handlers registered for POST /api/pairings/generate, in registration
\* order: the one without middleware, then the one behind authMiddleware and
\* roleMiddleware(UserRole.ADMIN)
GenerateRoutes == <<"generate", "generateAdmin">>

\* a registered player with a password and the role "player"
NewPlayerWithPassword ==
    [selected |-> FALSE, role |-> UserRole.PLAYER, password |-> "secret"]

\* Authorization headers: none, the super-admin's, a wrong password, and the
\* password of a player created with NewPlayerWithPassword
RouteCredentials ==
    Credentials \cup {[present |-> TRUE, name |-> 3, password |-> "secret"]}

RouteRequests ==
    {[gameDate |-> "", hasSets |-> FALSE, sets |-> 0, selectedCourtIds |-> c,
      authorization |-> cred] : c \in {{}, {1}}, cred \in RouteCredentials}

\* Express hands the request to the first handler registered for the path;
\* neither handler calls next(), so the handlers after it never run
PostPairingsGenerate(requests, maxGames) ==
    \E req \in requests :
        IF Head(GenerateRoutes) = "generate"
        THEN GeneratePairings({req})
        ELSE GeneratePairingsAdminWith(req, req.authorization, maxGames)

NextRoute ==
    \/ PostPlayer(MaxRouteId, {NewPlayer(FALSE), NewPlayerWithPassword})
    \/ PostPairingsGenerate(RouteRequests, MaxGames)

SpecRoute == Init /\ [][NextRoute]_vars

\* the request was sent by a player who authenticates and holds the admin or
\* super-admin role
AuthenticatedAdmin(cred) ==
    /\ cred.present
    /\ authenticatePlayer(players, cred.name, cred.password)
    /\ hasPermission(players, cred.name, UserRole.ADMIN)

\* C21: a request to the generate endpoint that is not authenticated as a
\* player with the admin or super-admin role never produces pairings.
C21_GenerationAdminOnly ==
    (IsGenerate /\ ~AuthenticatedAdmin(response.req.authorization))
        => response.body = <<>>

(***************************************************************************)
(* The unranked generation: a random shuffle sliced into groups of 4       *)
(***************************************************************************)
\* rosters of the shuffle machine hold 2..MaxShufflePool players
MaxShufflePool == 5

\* [...players].sort(() => Math.random() - 0.5): the comparator answers at
\* random, so the copy can come out in any order
ShuffledOrders(s) ==
    {p \in [1..Len(s) -> Range(s)] :
        \A i, j \in 1..Len(s) : i # j => p[i] # p[j]}

\* shuffleArray(array) with js[i] the index Math.floor(Math.random() * (i + 1))
\* drawn at step i (1-based here: js[i] \in 1..i, for i from Len(array) down
\* to 2); the swaps are done on the copy newArray
RECURSIVE FisherYates(_, _, _)
FisherYates(newArray, i, js) ==
    IF i <= 1 THEN newArray
    ELSE FisherYates([newArray EXCEPT ![i] = newArray[js[i]],
                                      ![js[i]] = newArray[i]],
                     i - 1, js)

shuffleArray(array, js) == FisherYates(array, Len(array), js)

\* the draws of Math.random for an array of n elements
RandomDraws(n) == {js \in [2..n -> 1..n] : \A i \in 2..n : js[i] <= i}

\* the slicing loop: for (i = 0; i < courts.length && i * 4 < shuffled.length; i++)
shuffledPairings(shuffledPlayers, selectedCourts, sets, gameDate) ==
    [k \in 1..Cardinality({i \in 0..(Len(selectedCourts) - 1) :
                              i * 4 < Len(shuffledPlayers)}) |->
        [courtId  |-> selectedCourts[k],
         pair1    |-> Pair(shuffledPlayers[4 * k - 3], shuffledPlayers[4 * k - 2]),
         pair2    |-> Pair(shuffledPlayers[4 * k - 1], shuffledPlayers[4 * k]),
         sets     |-> sets,
         gameDate |-> gameDate]]

MsgNeedPlayers == "Need at least courts * 4 players"

MsgNeedMultipleOf4 == "Need a multiple of 4 players for even pairings"

\* the validation of the first version of the handler
ShuffleFirstValidation(nPlayers, nCourts) ==
    IF nPlayers < nCourts * 4 THEN MsgNeedPlayers
    ELSE IF nPlayers % 4 # 0 THEN MsgNeedMultipleOf4
    ELSE ""

\* a reply of a shuffling handler, kept with the pool it read and the
\* shuffled copy it sliced
ShuffleReply(handler, req, pool, shuffled, failure, pairings) ==
    [op |-> handler, req |-> req, pool |-> pool, shuffled |-> shuffled,
     status  |-> IF failure = "" /\ PairingsSchemaOk(pairings) THEN 200 ELSE 400,
     message |-> IF failure # "" THEN failure
                 ELSE IF PairingsSchemaOk(pairings) THEN "" ELSE MsgInvalidFormat,
     body    |-> IF failure = "" /\ PairingsSchemaOk(pairings) THEN pairings
                 ELSE <<>>]

\* the request of the first version, which reads no body
NoBody == [gameDate |-> "", hasSets |-> FALSE, sets |-> 0, selectedCourtIds |-> {}]

\* POST /api/pairings/generate, first version: all courts, no request body
GeneratePairingsShuffleFirst ==
    LET pool    == PlayerPool
        failure == ShuffleFirstValidation(Len(pool), Len(getCourts))
    IN  /\ \E shuffledPlayers \in
                 (IF failure = "" THEN ShuffledOrders(pool) ELSE {pool}) :
              response' = ShuffleReply("generateShuffleFirst", NoBody, pool,
                              shuffledPlayers, failure,
                              shuffledPairings(shuffledPlayers, getCourts, 1, ""))
        /\ UNCHANGED <<storeVars, rankingsArg, pending, form>>

\* POST /api/pairings/generate, shuffling version with selected courts, sets
\* and game date
GeneratePairingsShuffle(requests) ==
    \E req \in requests :
        LET pool    == PlayerPool
            avail   == availableCourts(req.selectedCourtIds)
            failure == RankedValidation(Len(pool), Len(avail))
            selectedCourts == Slice(avail, 0, Len(pool) \div 4)
            sets    == IF req.hasSets THEN req.sets ELSE 1
        IN  /\ \E shuffledPlayers \in
                     (IF failure = "" THEN ShuffledOrders(pool) ELSE {pool}) :
                  response' = ShuffleReply("generateShuffle", req, pool,
                                  shuffledPlayers, failure,
                                  shuffledPairings(shuffledPlayers, selectedCourts,
                                                   SetsValue(sets),
                                                   GameDateValue(req.gameDate)))
            /\ UNCHANGED <<storeVars, rankingsArg, pending, form>>

\* a client call shuffleArray(array) on the player pool
ShuffleArray ==
    LET array == PlayerPool
    IN  /\ \E js \in RandomDraws(Len(array)) :
              response' = [op |-> "shuffleArray", status |-> 0, array |-> array,
                           newArray |-> shuffleArray(array, js)]
        /\ UNCHANGED <<storeVars, rankingsArg, pending, form>>

ShuffleRequests == GenerateRequests({""}, {}, {{}, {1}})

InitShuffle ==
    /\ \E n \in 2..MaxShufflePool :
          /\ players = Roster(n)
          /\ playerIdCounter = n + 1
    /\ courts = [id \in 1..Len(predefinedCourts) |-> predefinedCourts[id]]
    /\ courtIdCounter = Len(predefinedCourts) + 1
    /\ matchResults = EmptyMap
    /\ resultIdCounter = 1
    /\ playerRankings = EmptyMap
    /\ games = EmptyMap
    /\ gameIdCounter = 1
    /\ waitLists = EmptyMap
    /\ response = NoResponse
    /\ rankingsArg = <<>>
    /\ form = FormDefaults(1)
    /\ pending = <<>>

NextShuffle ==
    \/ DeleteCourt(1..Len(predefinedCourts))
    \/ GeneratePairingsShuffleFirst
    \/ GeneratePairingsShuffle(ShuffleRequests)
    \/ ShuffleArray

SpecShuffle == InitShuffle /\ [][NextShuffle]_vars

\* t holds the elements of s, each as often as s does
IsPermutationOf(t, s) ==
    /\ Len(t) = Len(s)
    /\ \A x \in Range(s) \cup Range(t) :
          Cardinality({i \in 1..Len(t) : t[i] = x})
              = Cardinality({i \in 1..Len(s) : s[i] = x})

ShuffleAccepted ==
    /\ response.op \in {"generateShuffle", "generateShuffleFirst"}
    /\ response.status = 200

\* C22: in the unranked mode the shuffled pool is a permutation of the pool,
\* the pool itself is left as it was, and for an accepted pool the groups of
\* 4 hold every player of the pool exactly once, each group on another court.
C22_ShuffleEveryPlayerOnce ==
    /\ response.op = "shuffleArray" =>
          /\ IsPermutationOf(response.newArray, response.array)
          /\ response.array = PlayerPool
    /\ ShuffleAccepted =>
          /\ IsPermutationOf(response.shuffled, response.pool)
          /\ response.pool = PlayerPool
          /\ \A k \in 1..Len(response.body) :
                Cardinality(PairingPlayers(response.body[k])) = 4
          /\ \A k, m \in 1..Len(response.body) :
                k # m => /\ PairingPlayers(response.body[k]) \cap
                            PairingPlayers(response.body[m]) = {}
                         /\ response.body[k].courtId # response.body[m].courtId
          /\ UNION {PairingPlayers(response.body[k]) : k \in 1..Len(response.body)}
                = Range(response.pool)

(***************************************************************************)
(* Ranking engine properties: the points of one update (under SpecRank)    *)
(***************************************************************************)
\* the players of both pairs of a result
ResultPlayers(result) == PairPlayers(result.pair1) \cup PairPlayers(result.pair2)

\* the pair of player pid won the result
WonBy(result, pid) ==
    \/ result.winner = "pair1" /\ pid \in PairPlayers(result.pair1)
    \/ result.winner # "pair1" /\ pid \in PairPlayers(result.pair2)

\* the points of player pid after the completed results of `order`, when each
\* update adds 1, adds or subtracts setNumber, adds 3 per blowout record the
\* player's pair won and subtracts 3 per blowout record it lost
RECURSIVE PointsBothWays(_, _, _, _)
PointsBothWays(pid, results, order, acc) ==
    IF order = <<>> THEN acc
    ELSE LET result == results[Head(order)]
             counted == result.completed /\ pid \in ResultPlayers(result)
             base == IF WonBy(result, pid) THEN acc + 1 + result.setNumber
                     ELSE acc + 1 - result.setNumber
             pts  == base + 3 * Cardinality(BlowoutsFor(results, pid))
                          - 3 * Cardinality(BlowoutsAgainst(results, pid))
         IN  PointsBothWays(pid, results, Tail(order),
                            IF counted THEN ClampPoints(pts) ELSE acc)

\* C23: each update of a player's row for a completed result adds 3 points
\* per blowout record (6-0 or 0-6, anywhere in the result set) the player's
\* pair won and subtracts 3 per blowout record it lost, whether the result
\* being processed is a win or a loss for the player.
C23_BlowoutsCountBothWays ==
    RankingsJustRead =>
        \A row \in Range(response.body) :
            row.points = PointsBothWays(row.playerId, matchResults,
                                        AscSeq(DOMAIN matchResults), 0)

\* the completed results player pid took part in, and those its pair won
PlayedBy(results, pid) ==
    {rid \in DOMAIN results :
        results[rid].completed /\ pid \in ResultPlayers(results[rid])}

WonResults(results, pid) ==
    {rid \in PlayedBy(results, pid) : WonBy(results[rid], pid)}

\* the sum of setNumber over the results rids
RECURSIVE SetsOf(_, _)
SetsOf(results, rids) ==
    IF rids = {} THEN 0
    ELSE LET rid == CHOOSE r \in rids : TRUE
         IN  results[rid].setNumber + SetsOf(results, rids \ {rid})

\* the points of player pid when each update adds 1 + setNumber for a win
\* and 1 - setNumber for a loss, floored at 0 after each update
RECURSIVE BasePoints(_, _, _, _)
BasePoints(pid, results, order, acc) ==
    IF order = <<>> THEN acc
    ELSE LET result == results[Head(order)]
             pts == IF WonBy(result, pid) THEN acc + 1 + result.setNumber
                    ELSE acc + 1 - result.setNumber
         IN  BasePoints(pid, results, Tail(order),
                        IF Head(order) \in PlayedBy(results, pid)
                        THEN ClampPoints(pts) ELSE acc)

\* C24: every completed result adds, to the row of each of its four players,
\* 1 to gamesPlayed and setNumber to setsPlayed; for a player of the winning
\* pair also 1 to gamesWon, setNumber to setsWon and 1 + setNumber to points;
\* for a player of the losing pair 1 - setNumber to points and nothing to
\* gamesWon and setsWon. (The points are compared in histories without a
\* blowout record, where the blowout pass adds nothing.)
C24_BaseStatsPerResult ==
    RankingsJustRead =>
        \A row \in Range(response.body) :
            LET pid == row.playerId
            IN  /\ row.gamesPlayed = Cardinality(PlayedBy(matchResults, pid))
                /\ row.setsPlayed = SetsOf(matchResults, PlayedBy(matchResults, pid))
                /\ row.gamesWon = Cardinality(WonResults(matchResults, pid))
                /\ row.setsWon = SetsOf(matchResults, WonResults(matchResults, pid))
                /\ specialScoreResults(matchResults) = {} =>
                      row.points = BasePoints(pid, matchResults,
                                              AscSeq(DOMAIN matchResults), 0)

\* C24 witness: two completed results without a blowout, one won and one
\* lost by player 1, ranked with all four players in the roster: player 1
\* holds 2 games, 1 win, 3 sets played, 2 sets won and (1 + 2) + (1 - 1) points
C24_Witness ==
    /\ RankingsJustRead
    /\ specialScoreResults(matchResults) = {}
    /\ Cardinality(PlayedBy(matchResults, 1)) = 2
    /\ Cardinality(WonResults(matchResults, 1)) = 1
    /\ \A pid \in 1..4 : HasRow(response.body, pid)
    /\ RowOf(response.body, 1).setsPlayed = 3
    /\ RowOf(response.body, 1).setsWon = 2
    /\ RowOf(response.body, 1).points = 3
    /\ RowOf(response.body, 3).gamesWon = 1
    /\ RowOf(response.body, 3).setsWon = 1

(***************************************************************************)
(* Court assignment properties (checked under SpecPair)                    *)
(***************************************************************************)
\* the pairs of the response in rank order, when court k (1-based) holds the
\* pairs of rank k and m + 1 - k among m pairs
RankedResponsePairs(m) ==
    [k \in 1..m |->
        IF k <= Len(response.body) THEN response.body[k].pair1
        ELSE response.body[m + 1 - k].pair2]

\* C25: for every accepted pool of N players the M = N/2 pairs are placed by
\* non-increasing combined points, court k holding the pair of rank k and the
\* pair of rank M-1-k: there are exactly N/4 court pairings, each on a
\* different available court, and every pair is on a court.
C25_CourtsTopAgainstBottom ==
    (GenerateHandled /\ PoolAccepted /\ RequestSetsValid) =>
        LET n == Len(EligiblePlayers)
            m == n \div 2
            ranked == RankedResponsePairs(m)
        IN  /\ response.status = 200
            /\ Len(response.body) = n \div 4
            /\ \A k \in 1..Len(response.body) :
                  /\ \E c \in 1..Len(RequestCourts) :
                        RequestCourts[c] = response.body[k].courtId
                  /\ \A j \in 1..Len(response.body) :
                        j # k => response.body[j].courtId # response.body[k].courtId
            /\ \A k \in 1..(m - 1) :
                  PairScore(rankingsArg, ranked[k]) >= PairScore(rankingsArg, ranked[k + 1])
            /\ Range(ranked) =
                  Range(balancedPairs(sortedPlayers(EligiblePlayers, rankingsArg)))
            /\ Cardinality(Range(ranked)) = m

\* C25 witness: 8 players in 4 pairs on 2 courts, the first court holding a
\* pair with more combined points than each other pair it is compared with
C25_Witness ==
    /\ GenerateSucceeded
    /\ Len(EligiblePlayers) = 8
    /\ Len(response.body) = 2
    /\ PairScore(rankingsArg, response.body[1].pair1)
          > PairScore(rankingsArg, response.body[2].pair1)
    /\ PairScore(rankingsArg, response.body[1].pair1)
          > PairScore(rankingsArg, response.body[1].pair2)

(***************************************************************************)
(* The storage under interleaved calls. calculateRankings clears the map,  *)
(* calls getPlayers (which takes its snapshot at the call) and suspends at *)
(* the await; the rest of its body runs when it is resumed. `pending`      *)
(* holds the suspended calls in the order in which they will resume.       *)
(***************************************************************************)
\* at most MaxPending calculateRankings calls are suspended at a time
MaxPending == 2
\* ids handed out by resultIdCounter stay <= MaxAsyncResults
MaxAsyncResults == 2

\* calculateRankings up to its await: the map is cleared and the call is
\* suspended with the players it read; `cleared` keeps the rows it removed
\* and `others` the number of calls that were suspended when it was made
SuspendedCall(rk, ps, others) ==
    [allPlayers |-> ps, cleared |-> rk, others |-> others]

\* calculateRankings from its await on: zero rows for the players read
\* before the suspension, then the results the store holds now
ResumeRankings(rk, call, results) ==
    ProcessResults(InitRankings(rk, call.allPlayers), results,
                   AscSeq(DOMAIN results))

\* storage.calculateRankings() is called
CalculateRankingsCall ==
    /\ Len(pending) < MaxPending
    /\ pending' = Append(pending, SuspendedCall(playerRankings, players, Len(pending)))
    /\ playerRankings' = ClearRankings(playerRankings)
    /\ response' = [op |-> "other", status |-> 0]
    /\ UNCHANGED <<rankingsArg, form, players, courts, matchResults, games,
                   waitLists, playerIdCounter, courtIdCounter, resultIdCounter,
                   gameIdCounter>>

\* storage.saveMatchResult(result) is called: the result is stored and
\* calculateRankings is called, which suspends
SaveMatchResultCall(maxId, bodies) ==
    /\ Len(pending) < MaxPending
    /\ resultIdCounter <= maxId
    /\ \E body \in bodies :
          matchResults' = saveMatchResult(matchResults, resultIdCounter, body)
    /\ resultIdCounter' = resultIdCounter + 1
    /\ pending' = Append(pending, SuspendedCall(playerRankings, players, Len(pending)))
    /\ playerRankings' = ClearRankings(playerRankings)
    /\ response' = [op |-> "other", status |-> 0]
    /\ UNCHANGED <<rankingsArg, form, players, courts, games, waitLists,
                   playerIdCounter, courtIdCounter, gameIdCounter>>

\* the suspended call that comes first is resumed and runs to its end
CalculateRankingsResume ==
    /\ pending # <<>>
    /\ playerRankings' = ResumeRankings(playerRankings, Head(pending), matchResults)
    /\ pending' = Tail(pending)
    /\ response' = [op |-> "calculateRankings", status |-> 0,
                    overlapped |-> Head(pending).others > 0 \/ Len(pending) > 1]
    /\ UNCHANGED <<rankingsArg, form, players, courts, matchResults, games,
                   waitLists, playerIdCounter, courtIdCounter, resultIdCounter,
                   gameIdCounter>>

\* storage.getPlayerRankings() is called; the reply is kept with the
\* calculateRankings calls suspended at that moment
GetPlayerRankingsCall ==
    /\ response' = [op |-> "getPlayerRankings", status |-> 0,
                    body |-> getPlayerRankings(playerRankings),
                    running |-> pending]
    /\ UNCHANGED <<storeVars, rankingsArg, pending, form>>

AsyncResultBodies ==
    {[id |-> 0, setNumber |-> 1, pair1Score |-> 6, pair2Score |-> sc,
      winner |-> w, completed |-> TRUE,
      pair1 |-> Pair(1, 2), pair2 |-> Pair(3, 4)] :
        sc \in {0, 4}, w \in {"pair1", "pair2"}}

NextAsync ==
    \/ PostPlayer(MaxPlayerId, {NewPlayer(FALSE)})
    \/ DeletePlayer(3..MaxPlayerId)
    \/ CalculateRankingsCall
    \/ SaveMatchResultCall(MaxAsyncResults, AsyncResultBodies)
    \/ CalculateRankingsResume
    \/ GetPlayerRankingsCall

SpecAsync == Init /\ [][NextAsync]_vars

\* a read made while a recomputation was suspended
ReadDuringRecomputation ==
    response.op = "getPlayerRankings" /\ response.running # <<>>

\* C26: a read of the rankings made while a recomputation is suspended
\* between clearing and repopulating the map returns the complete previous
\* mapping (the rows a running recomputation cleared) or the complete rebuilt
\* mapping (the rows a running recomputation leaves), never an empty or
\* partly rebuilt one.
C26_ReadSeesOldOrRebuilt ==
    ReadDuringRecomputation =>
        \E k \in 1..Len(response.running) :
            \/ response.body = getPlayerRankings(response.running[k].cleared)
            \/ response.body =
                  getPlayerRankings(
                      calculateRankings(EmptyMap, response.running[k].allPlayers,
                                        matchResults))

\* the roster, with a default player for every id that holds a ranking row
\* without being in the roster
RosterWithRows ==
    [id \in DOMAIN players \cup DOMAIN playerRankings |->
        IF id \in DOMAIN players THEN players[id] ELSE NewPlayer(FALSE)]

\* the last of several recomputations that were suspended at the same time
\* has finished
InterleavedFinished ==
    /\ response.op = "calculateRankings"
    /\ response.overlapped
    /\ pending = <<>>

\* C27: when recomputations interleave at the suspension point no result is
\* counted twice: once all of them have finished, every row of the ranking
\* map is the row a single recomputation over the final results gives that
\* player.
C27_InterleavedRecomputations ==
    InterleavedFinished =>
        \A id \in DOMAIN playerRankings :
            playerRankings[id] =
                calculateRankings(EmptyMap, RosterWithRows, matchResults)[id]

(***************************************************************************)
(* MemStorage: games and wait lists, called one call at a time             *)
(***************************************************************************)
\* ids handed out by gameIdCounter stay <= MaxWaitGames
MaxWaitGames == 2
\* ids handed out by playerIdCounter stay <= MaxWaitPlayerId
MaxWaitPlayerId == 3

\* this.waitLists.get(gameId) || []
getWaitList(wl, gameId) == IF gameId \in DOMAIN wl THEN wl[gameId] ELSE <<>>

\* waitList.filter(p => p.id !== playerId)
RECURSIVE FilterOut(_, _)
FilterOut(waitList, playerId) ==
    IF waitList = <<>> THEN <<>>
    ELSE IF Head(waitList) = playerId THEN FilterOut(Tail(waitList), playerId)
    ELSE <<Head(waitList)>> \o FilterOut(Tail(waitList), playerId)

\* what addToWaitList returns: null, or the wait list entry of the player
addToWaitListResult(wl, gs, ps, gameId, playerId) ==
    IF gameId \notin DOMAIN gs THEN "null"
    ELSE IF playerId \notin DOMAIN ps THEN "null"
    ELSE IF playerId \in Range(getWaitList(wl, gameId)) THEN "null"
    ELSE "waitListPlayer"

\* removeFromWaitList: the filtered list is stored under gameId in any case
removeFromWaitList(wl, gameId, playerId) ==
    [x \in DOMAIN wl \cup {gameId} |->
        IF x = gameId THEN FilterOut(getWaitList(wl, gameId), playerId) ELSE wl[x]]

\* filteredList.length < initialLength
removeFromWaitListResult(wl, gameId, playerId) ==
    Len(FilterOut(getWaitList(wl, gameId), playerId)) < Len(getWaitList(wl, gameId))

\* updatePlayer(id, { selected: true })
updatePlayerSelected(ps, id) ==
    IF id \in DOMAIN ps THEN [ps EXCEPT ![id] = [@ EXCEPT !.selected = TRUE]] ELSE ps

\* deleteGame: the game and its wait list
deleteGame(gs, id) == [x \in DOMAIN gs \ {id} |-> gs[x]]

\* storage.createGame(game)
CreateGameCall(maxGames) ==
    /\ gameIdCounter <= maxGames
    /\ games' = createGame(games, gameIdCounter, [status |-> "pending"])
    /\ waitLists' = InitWaitList(waitLists, gameIdCounter)
    /\ gameIdCounter' = gameIdCounter + 1
    /\ response' = [op |-> "createGame", gameId |-> gameIdCounter, playerId |-> 0,
                    result |-> "game"]
    /\ UNCHANGED <<rankingsArg, pending, form, players, courts, matchResults,
                   playerRankings, playerIdCounter, courtIdCounter,
                   resultIdCounter>>

\* storage.deleteGame(id)
DeleteGameCall(gameIds) ==
    \E id \in gameIds :
        /\ waitLists' = deleteGame(waitLists, id)
        /\ games' = deleteGame(games, id)
        /\ response' = [op |-> "deleteGame", gameId |-> id, playerId |-> 0,
                        result |-> IF id \in DOMAIN games THEN "true" ELSE "false"]
        /\ UNCHANGED <<rankingsArg, pending, form, players, courts, matchResults,
                       playerRankings, playerIdCounter, courtIdCounter,
                       resultIdCounter, gameIdCounter>>

\* storage.addToWaitList(gameId, playerId)
AddToWaitListCall(gameIds, playerIds) ==
    \E gameId \in gameIds, playerId \in playerIds :
        /\ waitLists' = addToWaitList(waitLists, games, players, gameId, playerId)
        /\ response' = [op |-> "addToWaitList", gameId |-> gameId,
                        playerId |-> playerId,
                        result |-> addToWaitListResult(waitLists, games, players,
                                                       gameId, playerId)]
        /\ UNCHANGED <<rankingsArg, pending, form, players, courts, matchResults,
                       playerRankings, games, playerIdCounter, courtIdCounter,
                       resultIdCounter, gameIdCounter>>

\* storage.removeFromWaitList(gameId, playerId)
RemoveFromWaitListCall(gameIds, playerIds) ==
    \E gameId \in gameIds, playerId \in playerIds :
        /\ waitLists' = removeFromWaitList(waitLists, gameId, playerId)
        /\ response' = [op |-> "removeFromWaitList", gameId |-> gameId,
                        playerId |-> playerId,
                        result |-> IF removeFromWaitListResult(waitLists, gameId,
                                                               playerId)
                                   THEN "true" ELSE "false"]
        /\ UNCHANGED <<rankingsArg, pending, form, players, courts, matchResults,
                       playerRankings, games, playerIdCounter, courtIdCounter,
                       resultIdCounter, gameIdCounter>>

\* storage.moveFromWaitListToGame(gameId, playerId): false for an unknown
\* player; otherwise the player is selected and then removed from the list
MoveFromWaitListToGameCall(gameIds, playerIds) ==
    \E gameId \in gameIds, playerId \in playerIds :
        /\ IF playerId \notin DOMAIN players
           THEN /\ response' = [op |-> "moveFromWaitListToGame", gameId |-> gameId,
                                playerId |-> playerId, result |-> "false"]
                /\ UNCHANGED <<players, waitLists>>
           ELSE /\ players' = updatePlayerSelected(players, playerId)
                /\ waitLists' = removeFromWaitList(waitLists, gameId, playerId)
                /\ response' = [op |-> "moveFromWaitListToGame", gameId |-> gameId,
                                playerId |-> playerId,
                                result |-> IF removeFromWaitListResult(
                                                  waitLists, gameId, playerId)
                                           THEN "true" ELSE "false"]
        /\ UNCHANGED <<rankingsArg, pending, form, courts, matchResults,
                       playerRankings, games, playerIdCounter, courtIdCounter,
                       resultIdCounter, gameIdCounter>>

\* the game ids and player ids of the calls
WaitGameIds == 1..MaxWaitGames

WaitPlayerIds == 2..MaxWaitPlayerId

NextWait ==
    \/ PostPlayer(MaxWaitPlayerId, {NewPlayer(FALSE)})
    \/ CreateGameCall(MaxWaitGames)
    \/ DeleteGameCall(WaitGameIds)
    \/ AddToWaitListCall(WaitGameIds, WaitPlayerIds)
    \/ RemoveFromWaitListCall(WaitGameIds, WaitPlayerIds)
    \/ MoveFromWaitListToGameCall(WaitGameIds, WaitPlayerIds)

SpecWait == Init /\ [][NextWait]_vars

\* no wait list holds a player id twice
NoDuplicateOnWaitLists ==
    \A g \in DOMAIN waitLists :
        \A i, j \in 1..Len(waitLists[g]) :
            i # j => waitLists[g][i] # waitLists[g][j]

\* the step is an addToWaitList call for a missing game, a missing player or
\* a player already on the game's list
AddRefusedStep ==
    /\ response'.op = "addToWaitList"
    /\ \/ response'.gameId \notin DOMAIN games
       \/ response'.playerId \notin DOMAIN players
       \/ response'.playerId \in Range(getWaitList(waitLists, response'.gameId))

\* C28: whatever the sequence of addToWaitList, removeFromWaitList,
\* moveFromWaitListToGame, createGame and deleteGame calls, no wait list
\* holds the same player id twice; and addToWaitList returns null and leaves
\* every wait list as it was when the game is missing, the player is missing
\* or the player is already on that game's list.
C28_WaitListsWithoutDuplicates ==
    /\ []NoDuplicateOnWaitLists
    /\ [][AddRefusedStep =>
             (response'.result = "null" /\ waitLists' = waitLists)]_vars

\* C28 witness: a player already on a list of two players was added again
\* and refused
C28_Witness ==
    /\ response.op = "addToWaitList"
    /\ response.result = "null"
    /\ response.gameId \in DOMAIN games
    /\ response.playerId \in DOMAIN players
    /\ Len(getWaitList(waitLists, response.gameId)) = 2
    /\ response.playerId \in Range(getWaitList(waitLists, response.gameId))

\* the step is a moveFromWaitListToGame call
MoveStep == response'.op = "moveFromWaitListToGame"

\* C29: moveFromWaitListToGame returns true exactly when the player was on
\* that game's wait list, and the player is then selected and off the list;
\* when it returns false the selected flags and all wait lists are as they
\* were before the call.
C29_MoveFromWaitList ==
    [][MoveStep =>
          LET gameId   == response'.gameId
              playerId == response'.playerId
              onList   == playerId \in Range(getWaitList(waitLists, gameId))
          IN  /\ (response'.result = "true") <=> onList
              /\ response'.result = "true" =>
                    /\ players'[playerId].selected
                    /\ playerId \notin Range(getWaitList(waitLists', gameId))
              /\ response'.result = "false" =>
                    /\ players' = players
                    /\ waitLists' = waitLists]_vars

(***************************************************************************)
(* The client's validation (lib/pairing.ts and the Home page) against the  *)
(* server's                                                                *)
(***************************************************************************)
\* validatePairings(playerCount, courtCount).isValid
validatePairings(playerCount, courtCount) ==
    IF playerCount < courtCount * 4 THEN FALSE
    ELSE IF playerCount % 4 # 0 THEN FALSE
    ELSE TRUE

\* canGeneratePairings of the Home page: players and courts are the lists of
\* GET /api/players and GET /api/courts, selectedCourtsCount the number of
\* courts ticked
canGeneratePairings(nPlayers, nCourts, selectedCourtsCount) ==
    IF selectedCourtsCount = 0
    THEN nPlayers >= nCourts * 4 /\ nPlayers % 4 = 0
    ELSE nPlayers >= selectedCourtsCount * 4 /\ nPlayers % 4 = 0

\* the court selections of the Home page: courts of the list, ticked or not
HomeRequests ==
    {req \in GenerateRequests({""}, {}, {{}, {1}, {1, 2}}) :
        req.selectedCourtIds \subseteq DOMAIN courts}

\* the generate button of the Home page: enabled when canGeneratePairings()
\* holds, it posts the ticked courts to /api/pairings/generate
HomeGenerate ==
    \E req \in HomeRequests :
        /\ canGeneratePairings(Len(getPlayers), Len(getCourts),
                               Cardinality(req.selectedCourtIds))
        /\ GeneratePairings({req})

\* a call validatePairings(playerCount, courtCount) on the counts the server
\* would use
ValidatePairingsCall ==
    \E req \in HomeRequests :
        LET playerCount == Len(PlayerPool)
            courtCount  == Len(availableCourts(req.selectedCourtIds))
        IN  /\ response' = [op |-> "validatePairings", status |-> 0,
                            playerCount |-> playerCount,
                            courtCount |-> courtCount,
                            isValid |-> validatePairings(playerCount, courtCount)]
            /\ UNCHANGED <<storeVars, rankingsArg, pending, form>>

NextClient ==
    \/ DeleteCourt(1..Len(predefinedCourts))
    \/ HomeGenerate
    \/ ValidatePairingsCall

SpecClient == InitOverflow /\ [][NextClient]_vars

\* C30: whenever the client's validation says pairings can be generated
\* (validatePairings, and canGeneratePairings of the Home page, which
\* enables the request), the server's preconditions hold: at least 4
\* players, a multiple of 4, and at least players / 4 available courts.
C30_ClientValidationImpliesServer ==
    /\ (response.op = "validatePairings" /\ response.isValid) =>
          RankedValidation(response.playerCount, response.courtCount) = ""
    /\ response.op = "generate" =>
          RankedValidation(Len(PlayerPool), Len(RequestCourts)) = ""

====
